---- MODULE Spec2Model ----
(***************************************************************************)
(* Model of the pptx audio transcription scripts:                          *)
(*   pptx_audio_transc_onefile.py  (merged transcript per document)        *)
(*   pptx_audio_transcriber.py     (one transcript pair per clip)          *)
(*   transcribe.py                 (its format_time variant)               *)
(*                                                                         *)
(* Times are integers in milliseconds.  A time value t stands for the      *)
(* binary64 number nearest to t/1000 seconds, which is what the Python     *)
(* float holds for a decimal literal with three fractional digits.         *)
(* File names and texts are strings, handled with Len, SubSeq and \o.      *)
(***************************************************************************)
EXTENDS Integers, Sequences, FiniteSets, TLC

(* ------------------------------ bounds -------------------------------- *)

\* Largest number of .pptx documents in the input folder.
MaxDocs == 2
\* Largest number of members in one container.
MaxEntries == 3
\* format_time is exercised on every whole millisecond 0..MaxMillis
\* (and on the sample values of FormatSamples).
MaxMillis == 1200

(* ------------------------- program constants -------------------------- *)

\* `if duration < 1.0`, in milliseconds.
MIN_DURATION == 1000

MEDIA_PREFIX == "ppt/media/"
AUDIO_EXTS == {".m4a", ".mp3", ".wav"}
GLOB_EXT == ".m4a"
WHITESPACE == {" ", "\t", "\n"}

(* --------------------------- string helpers --------------------------- *)

\* The characters that occur in file names, in code point order.
CODE_POINT_ORDER == "./0123456789abcdefghijklmnopqrstuvwxyz"

Char(s, i) == SubSeq(s, i, i)

CharCode(c) == CHOOSE i \in 1..Len(CODE_POINT_ORDER) : Char(CODE_POINT_ORDER, i) = c

startswith(s, p) == Len(s) >= Len(p) /\ SubSeq(s, 1, Len(p)) = p

endswith(s, p) == Len(s) >= Len(p) /\ SubSeq(s, Len(s) - Len(p) + 1, Len(s)) = p

endswith_any(s, suffixes) == \E p \in suffixes : endswith(s, p)

\* Python's str.__lt__: the first differing character decides, a proper
\* prefix is smaller.
RECURSIVE str_less(_, _)
str_less(a, b) ==
    IF Len(b) = 0 THEN FALSE
    ELSE IF Len(a) = 0 THEN TRUE
    ELSE IF Char(a, 1) = Char(b, 1) THEN str_less(Tail(a), Tail(b))
    ELSE CharCode(Char(a, 1)) < CharCode(Char(b, 1))

\* sorted() over a set of distinct names.
RECURSIVE sorted(_)
sorted(S) ==
    IF S = {} THEN <<>>
    ELSE LET m == CHOOSE x \in S : \A y \in S \ {x} : str_less(x, y)
         IN <<m>> \o sorted(S \ {m})

\* str.strip(): drop leading and trailing whitespace.
RECURSIVE lstrip(_)
lstrip(s) ==
    IF Len(s) > 0 /\ Char(s, 1) \in WHITESPACE THEN lstrip(Tail(s)) ELSE s

RECURSIVE rstrip(_)
rstrip(s) ==
    IF Len(s) > 0 /\ Char(s, Len(s)) \in WHITESPACE
    THEN rstrip(SubSeq(s, 1, Len(s) - 1)) ELSE s

strip(s) == rstrip(lstrip(s))

\* The part of a path after its last "/" (Path.name).
RECURSIVE basename(_)
basename(s) ==
    IF \E i \in 1..Len(s) : Char(s, i) = "/"
    THEN basename(Tail(s)) ELSE s

\* The part of a path up to and including its last "/".
dirname(s) == SubSeq(s, 1, Len(s) - Len(basename(s)))

(* ------------------------- number formatting -------------------------- *)

Digit(d) == Char("0123456789", d + 1)

RECURSIVE decimal(_)
decimal(n) == IF n < 10 THEN Digit(n) ELSE decimal(n \div 10) \o Digit(n % 10)

\* f"{n:0w}": decimal, zero-padded on the left to at least w characters.
RECURSIVE zero_pad(_, _)
zero_pad(s, w) == IF Len(s) >= w THEN s ELSE zero_pad("0" \o s, w)

fmt(n, w) == zero_pad(decimal(n), w)

(* ---------------------- binary64 millisecond part --------------------- *)

RECURSIVE bit_length(_)
bit_length(n) == IF n = 0 THEN 0 ELSE 1 + bit_length(n \div 2)

RECURSIVE pow2(_)
pow2(n) == IF n = 0 THEN 1 ELSE 2 * pow2(n - 1)

\* 2^n mod 1000, without leaving 32-bit integers.
RECURSIVE pow2_mod_1000(_)
pow2_mod_1000(n) == IF n = 0 THEN 1 ELSE (2 * pow2_mod_1000(n - 1)) % 1000

\* The number of fraction bits below the binary point of the binary64
\* number nearest to t/1000 (53 significant bits in all).
RECURSIVE sub_second_shift(_, _)
sub_second_shift(r, k) == IF r * pow2(k) >= 1000 THEN k ELSE sub_second_shift(r, k + 1)

fraction_bits(t) ==
    IF t \div 1000 = 0
    THEN 52 + sub_second_shift(t % 1000, 1)
    ELSE 53 - bit_length(t \div 1000)

\* int((seconds % 1) * 1000) in binary64 arithmetic, for seconds the double
\* nearest to t/1000.  With r = t mod 1000 and f fraction bits, the double's
\* fraction is F / 2^f with F = round(r * 2^f / 1000); F * 1000 / 2^f is
\* r + e / 2^f with e = F * 1000 - r * 2^f.  When e >= 0 the product rounds to
\* a double >= r and int() gives r.  When e < 0 the product lies below r and
\* rounds up to r only if it is within half an ulp of r; otherwise int()
\* truncates to r - 1.
millis_of(t) ==
    LET r == t % 1000
        f == fraction_bits(t)
        rem == (r * pow2_mod_1000(f)) % 1000
        br == bit_length(r)
        x == f + br - 54 - (IF r = pow2(br - 1) THEN 1 ELSE 0)
    IN IF r = 0 \/ rem = 0 \/ rem >= 500 THEN r
       ELSE IF x >= 0 /\ rem <= pow2(x) THEN r
       ELSE r - 1

\* format_time of pptx_audio_transc_onefile.py (and, line for line, of
\* pptx_audio_transcriber.py): minutes and hours by successive division.
format_time(t) ==
    LET millis == millis_of(t)
        seconds == t \div 1000
        minutes == seconds \div 60
        hours == minutes \div 60
    IN fmt(hours, 2) \o ":" \o fmt(minutes % 60, 2) \o ":"
         \o fmt(seconds % 60, 2) \o "." \o fmt(millis, 3)

\* format_time of transcribe.py: hours and minutes by direct division.
format_time_direct(t) ==
    LET ms == millis_of(t)
        secs == t \div 1000
        hours == secs \div 3600
        minutes == (secs % 3600) \div 60
        seconds == secs % 60
    IN fmt(hours, 2) \o ":" \o fmt(minutes, 2) \o ":"
         \o fmt(seconds, 2) \o "." \o fmt(ms, 3)

(* ------------------------ external collaborators ---------------------- *)

\* What `ffmpeg -v error -i <path> -f null -` can do: exit 0, exit non-zero,
\* or fail to be invoked (subprocess.run raises).
DecoderOutcomes ==
    { [raised |-> FALSE, returncode |-> 0],
      [raised |-> FALSE, returncode |-> 1],
      [raised |-> TRUE, returncode |-> 0] }

\* What ffmpeg.probe can do: fail, or report a duration (milliseconds).
ProbeOutcomes ==
    { [ok |-> FALSE, duration |-> 0],
      [ok |-> TRUE, duration |-> 500],
      [ok |-> TRUE, duration |-> 1000],
      [ok |-> TRUE, duration |-> 2000] }

\* What model.transcribe can do: raise FileNotFoundError, or return a text
\* and its ordered segments (clip-local times, start <= end).  The second
\* segment of the last outcome starts after a probed duration of 1000.
EngineOutcomes ==
    { [raised |-> TRUE, text |-> "", segments |-> <<>>],
      [raised |-> FALSE, text |-> " \n",
       segments |-> << [start |-> 0, end |-> 500, text |-> ""] >>],
      [raised |-> FALSE, text |-> " hello",
       segments |-> << [start |-> 0, end |-> 800, text |-> " hello"] >>],
      [raised |-> FALSE, text |-> " one two",
       segments |-> << [start |-> 0, end |-> 1000, text |-> " one"],
                       [start |-> 1500, end |-> 2500, text |-> " two"] >>] }

(* ----------------------------- containers ----------------------------- *)

\* Member names of the documents main processes.
EntryNames ==
    { "ppt/media/a1.m4a", "ppt/media/a10.m4a", "ppt/media/a2.m4a",
      "ppt/media/b.mp3", "ppt/slides/s.m4a" }

\* Member names for the extraction taken alone: also a nested audio file,
\* an uncompressed one and a picture.
WideEntryNames ==
    EntryNames \cup { "ppt/media/x/n.m4a", "ppt/media/c.wav", "ppt/media/i.png" }

\* A member is intact, has a damaged local header (zipfile raises BadZipFile
\* before the target file is created) or fails its CRC check (zipfile raises
\* BadZipFile after the target file was created).
Corruptions == {"ok", "bad_header", "bad_crc"}

\* `file_info.filename.startswith('ppt/media/') and
\*  file_info.filename.endswith(('.m4a', '.mp3', '.wav'))`
is_audio_entry(filename) ==
    startswith(filename, MEDIA_PREFIX) /\ endswith_any(filename, AUDIO_EXTS)

\* Members the extractor never reads are taken intact: their state cannot
\* be observed.
Entries(names) ==
    { e \in [filename : names, corrupt : Corruptions] :
        is_audio_entry(e.filename) \/ e.corrupt = "ok" }

\* zip_ref.infolist(): the members in archive order, names distinct.
ContainersOver(names) ==
    { c \in UNION { [1..k -> Entries(names)] : k \in 0..MaxEntries } :
        \A i, j \in DOMAIN c : i # j => c[i].filename # c[j].filename }

Containers == ContainersOver(EntryNames)

WideContainers == ContainersOver(WideEntryNames)

\* The loop over zip_ref.infolist(): st.extracted are the files now present
\* under temp, st.dirs the directories zipfile created for them, and
\* st.corrupted_files the names reported.  A BadZipFile on one member does
\* not end the loop.
RECURSIVE extract_members(_, _)
extract_members(infolist, st) ==
    IF infolist = <<>> THEN st
    ELSE LET file_info == Head(infolist)
             next ==
               IF ~is_audio_entry(file_info.filename) THEN st
               ELSE [ extracted |->
                        IF file_info.corrupt = "bad_header" THEN st.extracted
                        ELSE st.extracted \cup {file_info.filename},
                      dirs |-> st.dirs \cup {dirname(file_info.filename)},
                      corrupted_files |->
                        IF file_info.corrupt = "ok" THEN st.corrupted_files
                        ELSE Append(st.corrupted_files, file_info.filename) ]
         IN extract_members(Tail(infolist), next)

\* `sorted(media_folder.glob('*.m4a'))`: the files directly in ppt/media
\* whose name ends in .m4a, in lexicographic order.
glob_media(extracted) ==
    sorted({ f \in extracted : dirname(f) = MEDIA_PREFIX /\ endswith(f, GLOB_EXT) })

\* extract_audio_from_pptx on a fresh temp folder.
extract_audio_from_pptx(container) ==
    LET st == extract_members(container,
                 [extracted |-> {}, dirs |-> {}, corrupted_files |-> <<>>])
        media_exists == \E d \in st.dirs : startswith(d, MEDIA_PREFIX)
    IN [ extracted |-> st.extracted,
         corrupted_files |-> st.corrupted_files,
         audio_files |-> IF ~media_exists THEN <<>> ELSE glob_media(st.extracted) ]

(* ------------------------------ validators ---------------------------- *)

\* A variant that only asks whether the decoder could be invoked.
is_valid_audio_any_exit(outcome) == ~outcome.raised

is_valid_audio(outcome) ==
    IF outcome.raised THEN FALSE ELSE outcome.returncode = 0

get_audio_duration(outcome) ==
    IF outcome.ok THEN outcome.duration ELSE 0

is_silent_transcription(text) == Len(strip(text)) = 0

\* A variant that rejects only the 0.0 of a failed probe.
too_short_zero_only(d) == d <= 0

too_short(d) == d < MIN_DURATION

(* -------------------------------- state ------------------------------- *)

VARIABLES
    pipeline,         \* which script runs: "onefile" or "transcriber"
    pc,               \* position of main
    ndocs,            \* len(pptx_files)
    doc,              \* 1-based position of pptx_file in pptx_files
    temp_exists,      \* per document: <output>/<stem>/temp exists
    zip_ref,          \* history: the members of the container just read
    extracted,        \* history: the files the extraction left under temp
    corrupted_files,  \* the names the extraction reported as corrupted
    audio_files,      \* its return value: the candidate clips
    index,            \* enumerate(audio_files, 1)
    duration,         \* duration of the clip at hand
    current_time,     \* running offset of transcribe_and_merge
    txt_file,         \* blocks written to <stem>_transcription.txt
    vtt_file,         \* header and cues written to <stem>_transcription.vtt
    slide_files,      \* output pairs written by transcribe_audio
    calls,            \* history: the external calls made for this document
    clip_log,         \* history: per clip, what the collaborators answered
    seconds,          \* argument of format_time
    formatted,        \* results of the two format_time variants
    fs,               \* transcribe.py: the files on disk, by absolute path
    media_files,      \* transcribe.py: what extract_audio_from_pptx returns
    file_pos,         \* transcribe.py: position of `for file in audio_files`
    written           \* history: per transcribed file, the paths it opened

vars ==
    << pipeline, pc, ndocs, doc, temp_exists, zip_ref, extracted,
       corrupted_files, audio_files, index, duration, current_time, txt_file,
       vtt_file, slide_files, calls, clip_log, seconds, formatted, fs,
       media_files, file_pos, written >>

fmtVars == << seconds, formatted >>
pathVars == << fs, media_files, file_pos, written >>
extractVars == << zip_ref, extracted, corrupted_files, audio_files >>
outVars == << current_time, txt_file, vtt_file, slide_files >>

NoFile == [header |-> "", cues |-> <<>>]
NoProbe == [ok |-> FALSE, duration |-> 0]
NoEngine == [raised |-> FALSE, text |-> "", segments |-> <<>>]

Init ==
    /\ pipeline \in {"onefile", "transcriber"}
    /\ pc = "start"
    /\ ndocs \in 0..MaxDocs
    /\ doc = 0
    /\ temp_exists = [d \in 1..ndocs |-> FALSE]
    /\ zip_ref = <<>>
    /\ extracted = {}
    /\ corrupted_files = <<>>
    /\ audio_files = <<>>
    /\ index = 0
    /\ duration = 0
    /\ current_time = 0
    /\ txt_file = <<>>
    /\ vtt_file = NoFile
    /\ slide_files = <<>>
    /\ calls = <<>>
    /\ clip_log = <<>>
    /\ seconds = 0
    /\ formatted = [successive |-> "", direct |-> ""]
    /\ fs = <<>>
    /\ media_files = <<>>
    /\ file_pos = 0
    /\ written = <<>>

(* ------------------------------ the writers --------------------------- *)

\* A variant labelling from 0, as enumerate(audio_files) would.
txt_block_zero_based(i, text) ==
    [label |-> "Slide " \o decimal(i - 1) \o ":", text |-> text]

\* f"Slide {index}:\n{transcribed_text}\n\n"
txt_block(i, text) == [label |-> "Slide " \o decimal(i) \o ":", text |-> text]

\* A variant that keeps clip-local times, as transcribe_audio does.
vtt_cue_local(offset, segment) ==
    [ start |-> segment.start,
      end |-> segment.end,
      line |-> format_time(segment.start) \o " --> " \o format_time(segment.end),
      text |-> segment.text ]

\* One cue: start and end are the values handed to format_time, line is the
\* "start --> end" line written to the file.
vtt_cue(offset, segment) ==
    [ start |-> offset + segment.start,
      end |-> offset + segment.end,
      line |-> format_time(offset + segment.start) \o " --> "
                 \o format_time(offset + segment.end),
      text |-> segment.text ]

\* `for segment in result['segments']: ... vtt_file.write(...)`
vtt_cues(offset, segments) ==
    [k \in 1..Len(segments) |-> vtt_cue(offset, segments[k])]

\* A variant that assigns instead of accumulating.
accumulate_assign(offset, d) == d

\* A variant that never advances the offset.
accumulate_never(offset, d) == offset

\* `current_time += duration`
accumulate(offset, d) == offset + d

\* transcribe_audio names its outputs after audio_file.parent.parent.parent,
\* which is the temp folder.
slide_file(slide_number, result) ==
    [ name |-> "temp_slide_" \o decimal(slide_number),
      text |-> result.text,
      cues |-> vtt_cues(0, result.segments) ]

(* -------------------------------- main -------------------------------- *)

\* The locals of one document's processing, as they are before it starts.
ResetDocument ==
    /\ zip_ref' = <<>>
    /\ extracted' = {}
    /\ corrupted_files' = <<>>
    /\ audio_files' = <<>>
    /\ index' = 0
    /\ duration' = 0
    /\ current_time' = 0
    /\ txt_file' = <<>>
    /\ vtt_file' = NoFile
    /\ slide_files' = <<>>
    /\ calls' = <<>>
    /\ clip_log' = <<>>

\* `for pptx_file in pptx_files` takes the next document, or main ends.
NextDocument ==
    /\ doc' = doc + 1
    /\ pc' = IF doc + 1 > ndocs THEN "done" ELSE "extract"
    /\ ResetDocument

\* main up to the loop: "No .pptx files found." ends it.
MainStart ==
    /\ pc = "start"
    /\ NextDocument
    /\ UNCHANGED << pipeline, ndocs, temp_exists, fmtVars, pathVars >>

\* `audio_files = extract_audio_from_pptx(pptx_path, pptx_output_folder)`:
\* temp is removed if present, created, and filled from the container.
ExtractFrom(containers) ==
    /\ pc = "extract"
    /\ \E container \in containers :
         LET r == extract_audio_from_pptx(container)
         IN /\ zip_ref' = container
            /\ extracted' = r.extracted
            /\ corrupted_files' = r.corrupted_files
            /\ audio_files' = r.audio_files
    /\ temp_exists' = [temp_exists EXCEPT ![doc] = TRUE]
    /\ pc' = "extracted"
    /\ UNCHANGED << pipeline, ndocs, doc, index, duration, outVars, calls,
                    clip_log, fmtVars, pathVars >>

Extract == ExtractFrom(Containers)

\* main keeps the returned list; what extract_audio_from_pptx read and
\* reported is kept only until main has looked at the return value.
ExtractReturned ==
    /\ zip_ref' = <<>>
    /\ extracted' = {}
    /\ corrupted_files' = <<>>
    /\ audio_files' = audio_files

\* `if not audio_files: ... continue`
NoAudio ==
    /\ pc = "extracted"
    /\ audio_files = <<>>
    /\ NextDocument
    /\ UNCHANGED << pipeline, ndocs, temp_exists, fmtVars, pathVars >>

\* "Clean up temporary files", then the next document.
Cleanup ==
    /\ pc = "cleanup"
    /\ temp_exists' = [temp_exists EXCEPT ![doc] = FALSE]
    /\ NextDocument
    /\ UNCHANGED << pipeline, ndocs, fmtVars, pathVars >>

(* ----------------- transcribe_and_merge (onefile script) -------------- *)

LogStart(o) ==
    Append(clip_log,
           [ index |-> index, decoder |-> o, probed |-> FALSE, probe |-> NoProbe,
             transcribed |-> FALSE, engine |-> NoEngine,
             offset |-> current_time ])

LogProbe(p) ==
    [clip_log EXCEPT ![Len(clip_log)].probed = TRUE, ![Len(clip_log)].probe = p]

LogEngine(r) ==
    [clip_log EXCEPT ![Len(clip_log)].transcribed = TRUE, ![Len(clip_log)].engine = r]

Call(op, raised, value) ==
    Append(calls, [op |-> op, clip |-> index, raised |-> raised, value |-> value])

\* The two files are opened and the header is written.
MergeOpen ==
    /\ pc = "extracted"
    /\ pipeline = "onefile"
    /\ audio_files # <<>>
    /\ current_time' = 0
    /\ txt_file' = <<>>
    /\ vtt_file' = [header |-> "WEBVTT", cues |-> <<>>]
    /\ index' = 1
    /\ pc' = "valid"
    /\ ExtractReturned
    /\ UNCHANGED << pipeline, ndocs, doc, temp_exists, duration, slide_files,
                    calls, clip_log, fmtVars, pathVars >>

\* `if not is_valid_audio(audio_file): continue`
MergeValid ==
    /\ pc = "valid"
    /\ pipeline = "onefile"
    /\ index <= Len(audio_files)
    /\ \E o \in DecoderOutcomes :
         /\ calls' = Call("decoder", o.raised, o.returncode)
         /\ clip_log' = LogStart(o)
         /\ IF is_valid_audio(o)
            THEN pc' = "probe" /\ index' = index
            ELSE pc' = "valid" /\ index' = index + 1
    /\ UNCHANGED << pipeline, ndocs, doc, temp_exists, extractVars, duration,
                    outVars, fmtVars, pathVars >>

\* `duration = get_audio_duration(audio_file); if duration < 1.0: continue`
MergeProbe ==
    /\ pc = "probe"
    /\ pipeline = "onefile"
    /\ \E p \in ProbeOutcomes :
         /\ calls' = Call("probe", ~p.ok, p.duration)
         /\ clip_log' = LogProbe(p)
         /\ duration' = get_audio_duration(p)
         /\ IF too_short(get_audio_duration(p))
            THEN pc' = "valid" /\ index' = index + 1
            ELSE pc' = "transcribe" /\ index' = index
    /\ UNCHANGED << pipeline, ndocs, doc, temp_exists, extractVars, outVars,
                    fmtVars, pathVars >>

\* `result = model.transcribe(...)` and the rest of the loop body.  A
\* FileNotFoundError is not caught: the with block closes the two files and
\* the exception leaves transcribe_and_merge and main.
MergeTranscribe ==
    /\ pc = "transcribe"
    /\ pipeline = "onefile"
    /\ \E r \in EngineOutcomes :
         /\ calls' = Call("transcribe", r.raised, 0)
         /\ clip_log' = LogEngine(r)
         /\ IF r.raised
            THEN /\ pc' = "aborted"
                 /\ UNCHANGED << index, current_time, txt_file, vtt_file >>
            ELSE IF is_silent_transcription(r.text)
            THEN /\ pc' = "valid"
                 /\ index' = index + 1
                 /\ UNCHANGED << current_time, txt_file, vtt_file >>
            ELSE /\ pc' = "valid"
                 /\ index' = index + 1
                 /\ txt_file' = Append(txt_file, txt_block(index, r.text))
                 /\ vtt_file' = [vtt_file EXCEPT !.cues =
                                   @ \o vtt_cues(current_time, r.segments)]
                 /\ current_time' = accumulate(current_time, duration)
    /\ UNCHANGED << pipeline, ndocs, doc, temp_exists, extractVars, duration,
                    slide_files, fmtVars, pathVars >>

\* The loop is over: the files are closed and main goes on to the cleanup.
MergeClose ==
    /\ pc = "valid"
    /\ pipeline = "onefile"
    /\ index > Len(audio_files)
    /\ pc' = "cleanup"
    /\ UNCHANGED << pipeline, ndocs, doc, temp_exists, extractVars, index,
                    duration, outVars, calls, clip_log, fmtVars, pathVars >>

(* ------------------ transcribe_audio (transcriber script) ------------- *)

\* `for index, audio_file in enumerate(audio_files, 1)` begins.
ClipsOpen ==
    /\ pc = "extracted"
    /\ pipeline = "transcriber"
    /\ audio_files # <<>>
    /\ index' = 1
    /\ pc' = "valid"
    /\ ExtractReturned
    /\ UNCHANGED << pipeline, ndocs, doc, temp_exists, duration, outVars, calls,
                    clip_log, fmtVars, pathVars >>

\* `if not is_valid_audio(audio_file): return`
ClipValid ==
    /\ pc = "valid"
    /\ pipeline = "transcriber"
    /\ index <= Len(audio_files)
    /\ \E o \in DecoderOutcomes :
         /\ calls' = Call("decoder", o.raised, o.returncode)
         /\ clip_log' = LogStart(o)
         /\ IF is_valid_audio(o)
            THEN pc' = "probe" /\ index' = index
            ELSE pc' = "valid" /\ index' = index + 1
    /\ UNCHANGED << pipeline, ndocs, doc, temp_exists, extractVars, duration,
                    outVars, fmtVars, pathVars >>

\* `duration = get_audio_duration(audio_file); if duration < 1.0: return`
ClipProbe ==
    /\ pc = "probe"
    /\ pipeline = "transcriber"
    /\ \E p \in ProbeOutcomes :
         /\ calls' = Call("probe", ~p.ok, p.duration)
         /\ clip_log' = LogProbe(p)
         /\ duration' = get_audio_duration(p)
         /\ IF too_short(get_audio_duration(p))
            THEN pc' = "valid" /\ index' = index + 1
            ELSE pc' = "transcribe" /\ index' = index
    /\ UNCHANGED << pipeline, ndocs, doc, temp_exists, extractVars, outVars,
                    fmtVars, pathVars >>

\* The transcription and the two per-clip files.
ClipTranscribe ==
    /\ pc = "transcribe"
    /\ pipeline = "transcriber"
    /\ \E r \in EngineOutcomes :
         /\ calls' = Call("transcribe", r.raised, 0)
         /\ clip_log' = LogEngine(r)
         /\ IF r.raised
            THEN pc' = "aborted" /\ UNCHANGED << index, slide_files >>
            ELSE /\ pc' = "valid"
                 /\ index' = index + 1
                 /\ slide_files' =
                      IF is_silent_transcription(r.text) THEN slide_files
                      ELSE Append(slide_files, slide_file(index, r))
    /\ UNCHANGED << pipeline, ndocs, doc, temp_exists, extractVars, duration,
                    current_time, txt_file, vtt_file, fmtVars, pathVars >>

\* Every clip was handed to transcribe_audio.
ClipsClose ==
    /\ pc = "valid"
    /\ pipeline = "transcriber"
    /\ index > Len(audio_files)
    /\ pc' = "cleanup"
    /\ UNCHANGED << pipeline, ndocs, doc, temp_exists, extractVars, index,
                    duration, outVars, calls, clip_log, fmtVars, pathVars >>

Next ==
    \/ MainStart
    \/ Extract
    \/ NoAudio
    \/ Cleanup
    \/ MergeOpen
    \/ MergeValid
    \/ MergeProbe
    \/ MergeTranscribe
    \/ MergeClose
    \/ ClipsOpen
    \/ ClipValid
    \/ ClipProbe
    \/ ClipTranscribe
    \/ ClipsClose

Spec == Init /\ [][Next]_vars

(* ----------------------------- format_time ---------------------------- *)

FormatSamples == {59999, 3661500, 90000001}

FormatInputs == 0..MaxMillis \cup FormatSamples

InitFmt ==
    /\ pipeline = "onefile"
    /\ pc = "format"
    /\ ndocs = 0
    /\ doc = 0
    /\ temp_exists = <<>>
    /\ zip_ref = <<>>
    /\ extracted = {}
    /\ corrupted_files = <<>>
    /\ audio_files = <<>>
    /\ index = 0
    /\ duration = 0
    /\ current_time = 0
    /\ txt_file = <<>>
    /\ vtt_file = NoFile
    /\ slide_files = <<>>
    /\ calls = <<>>
    /\ clip_log = <<>>
    /\ seconds \in FormatInputs
    /\ formatted = [successive |-> "", direct |-> ""]
    /\ fs = <<>>
    /\ media_files = <<>>
    /\ file_pos = 0
    /\ written = <<>>

pipelineVars ==
    << pipeline, pc, ndocs, doc, temp_exists, zip_ref, extracted,
       corrupted_files, audio_files, index, duration, current_time, txt_file,
       vtt_file, slide_files, calls, clip_log >>

pipelineVarsButPc ==
    << pipeline, ndocs, doc, temp_exists, zip_ref, extracted,
       corrupted_files, audio_files, index, duration, current_time, txt_file,
       vtt_file, slide_files, calls, clip_log >>

\* format_time of the two pptx_audio_* scripts.
FormatTime ==
    /\ pc = "format"
    /\ formatted.successive = ""
    /\ formatted' = [formatted EXCEPT !.successive = format_time(seconds)]
    /\ UNCHANGED << pipelineVars, seconds, pathVars >>

\* format_time of transcribe.py.
FormatTimeDirect ==
    /\ pc = "format"
    /\ formatted.direct = ""
    /\ formatted' = [formatted EXCEPT !.direct = format_time_direct(seconds)]
    /\ UNCHANGED << pipelineVars, seconds, pathVars >>

NextFmt == FormatTime \/ FormatTimeDirect

SpecFmt == InitFmt /\ [][NextFmt]_vars

(* ------------------------- the extraction alone ----------------------- *)

\* main has reached its first call of extract_audio_from_pptx.
InitExtract ==
    /\ pipeline \in {"onefile", "transcriber"}
    /\ pc = "extract"
    /\ ndocs = 1
    /\ doc = 1
    /\ temp_exists = [d \in 1..1 |-> FALSE]
    /\ zip_ref = <<>>
    /\ extracted = {}
    /\ corrupted_files = <<>>
    /\ audio_files = <<>>
    /\ index = 0
    /\ duration = 0
    /\ current_time = 0
    /\ txt_file = <<>>
    /\ vtt_file = NoFile
    /\ slide_files = <<>>
    /\ calls = <<>>
    /\ clip_log = <<>>
    /\ seconds = 0
    /\ formatted = [successive |-> "", direct |-> ""]
    /\ fs = <<>>
    /\ media_files = <<>>
    /\ file_pos = 0
    /\ written = <<>>

ExtractWide == ExtractFrom(WideContainers)

NextExtract == ExtractWide

SpecExtract == InitExtract /\ [][NextExtract]_vars

(* ----------------------------- transcribe.py -------------------------- *)

\* The working directory os.path.abspath resolves against.
cwd == "/srv"

\* os.path.join of a folder and a relative name.
join(a, b) == a \o "/" \o b

abspath(p) == IF startswith(p, "/") THEN p ELSE join(cwd, p)

\* str.replace: every occurrence of old, left to right, none overlapping.
RECURSIVE str_replace(_, _, _)
str_replace(s, old, new) ==
    IF Len(s) < Len(old) THEN s
    ELSE IF startswith(s, old)
         THEN new \o str_replace(SubSeq(s, Len(old) + 1, Len(s)), old, new)
         ELSE Char(s, 1) \o str_replace(Tail(s), old, new)

text_path(abs_path) == str_replace(abs_path, ".m4a", ".txt")

vtt_path(abs_path) == str_replace(abs_path, ".m4a", ".vtt")

\* What unzip_pptx returned, and the two folders of extract_audio_from_pptx.
unzipped_folder == "deck"
media_path == "media"
target_folder == join(join(unzipped_folder, "ppt"), "media")

\* Names, below ppt/media, of the files an unzipped document can hold.
UnzippedNames == {"a.m4a", "b.mp3", "c.wav", "i.png", "x/a.m4a"}

Directory == [kind |-> "dir", text |-> "", cues |-> <<>>]
AudioFrom(source) == [kind |-> "audio", text |-> source, cues |-> <<>>]

\* The disk with the files `names` unzipped below ppt/media.
Unzipped(names) ==
    LET paths == { abspath(join(target_folder, n)) : n \in names }
    IN [ p \in {abspath(unzipped_folder), abspath(target_folder)} \cup paths
           |-> IF p \in paths THEN AudioFrom(p) ELSE Directory ]

exists(disk, p) == abspath(p) \in DOMAIN disk

\* open(p, 'w') followed by the writes: the file holds `content` alone.
write(disk, p, content) ==
    [ q \in DOMAIN disk \cup {abspath(p)}
        |-> IF q = abspath(p) THEN content ELSE disk[q] ]

\* The files below `folder`, as paths relative to it.
files_below(disk, folder) ==
    LET prefix == abspath(folder) \o "/"
    IN { SubSeq(p, Len(prefix) + 1, Len(p)) :
           p \in { q \in DOMAIN disk :
                     startswith(q, prefix) /\ disk[q].kind # "dir" } }

\* The orders os.walk can yield the files in: top-down, so the files of a
\* folder come before those of its subfolders; any order within a folder.
walks(disk, folder) ==
    LET files == files_below(disk, folder)
        n == Cardinality(files)
    IN { w \in [1..n -> files] :
           /\ \A i, j \in 1..n : i # j => w[i] # w[j]
           /\ \A i, j \in 1..n :
                (dirname(w[i]) = "" /\ dirname(w[j]) # "") => i < j }

\* The two loops of extract_audio_from_pptx from position k of the walk on:
\* the disk after the copies, and media_files.
RECURSIVE copy_media(_, _, _, _)
copy_media(disk, walk, k, found) ==
    IF k > Len(walk) THEN [disk |-> disk, media_files |-> found]
    ELSE LET file == basename(walk[k])
             source == join(target_folder, walk[k])
             destination == join(media_path, file)
         IN IF endswith_any(file, AUDIO_EXTS)
            THEN copy_media(write(disk, destination, disk[abspath(source)]),
                            walk, k + 1, Append(found, destination))
            ELSE copy_media(disk, walk, k + 1, found)

\* One cue of transcribe.py: the times of the segment as they are.
vtt_cue_direct(segment) ==
    [ line |-> format_time_direct(segment.start) \o " --> "
                 \o format_time_direct(segment.end),
      text |-> segment.text ]

TextFile(result) == [kind |-> "text", text |-> result.text, cues |-> <<>>]

VttFile(result) ==
    [ kind |-> "vtt", text |-> "WEBVTT",
      cues |-> [ k \in 1..Len(result.segments)
                   |-> vtt_cue_direct(result.segments[k]) ] ]

\* What model.transcribe can raise: the error the loop catches, or another.
EngineErrors == {"FileNotFoundError", "RuntimeError"}

\* main has unzipped the document and calls extract_audio_from_pptx.
InitPaths ==
    /\ pipeline = "transcribe"
    /\ pc = "paths_extract"
    /\ ndocs = 1
    /\ doc = 1
    /\ temp_exists = <<>>
    /\ zip_ref = <<>>
    /\ extracted = {}
    /\ corrupted_files = <<>>
    /\ audio_files = <<>>
    /\ index = 0
    /\ duration = 0
    /\ current_time = 0
    /\ txt_file = <<>>
    /\ vtt_file = NoFile
    /\ slide_files = <<>>
    /\ calls = <<>>
    /\ clip_log = <<>>
    /\ seconds = 0
    /\ formatted = [successive |-> "", direct |-> ""]
    /\ fs \in { [p \in {abspath(unzipped_folder)} |-> Directory] }
                \cup { Unzipped(names) : names \in SUBSET UnzippedNames }
    /\ media_files = <<>>
    /\ file_pos = 0
    /\ written = <<>>

\* extract_audio_from_pptx, and main's `if audio_files:`.
PathsExtract ==
    /\ pc = "paths_extract"
    /\ IF ~exists(fs, unzipped_folder)
       THEN /\ media_files' = <<>>
            /\ fs' = fs
       ELSE LET disk == write(fs, media_path, Directory)
            IN IF exists(disk, target_folder)
               THEN \E walk \in walks(disk, target_folder) :
                      LET done == copy_media(disk, walk, 1, <<>>)
                      IN /\ fs' = done.disk
                         /\ media_files' = done.media_files
               ELSE /\ media_files' = <<>>
                    /\ fs' = disk
    /\ file_pos' = 1
    /\ pc' = IF media_files' # <<>> THEN "paths_transcribe" ELSE "paths_done"
    /\ UNCHANGED << pipelineVarsButPc, fmtVars, written >>

\* One pass of `for file in audio_files` of transcribe_audio_files.
PathsTranscribe ==
    /\ pc = "paths_transcribe"
    /\ file_pos <= Len(media_files)
    /\ LET file == media_files[file_pos]
           abs_path == abspath(file)
       IN IF ~exists(fs, abs_path)
          THEN /\ file_pos' = file_pos + 1
               /\ UNCHANGED << pc, fs, written >>
          ELSE \E result \in EngineOutcomes :
                 IF result.raised
                 THEN \E error \in EngineErrors :
                        /\ pc' = IF error = "FileNotFoundError"
                                 THEN pc ELSE "paths_crashed"
                        /\ file_pos' = file_pos + 1
                        /\ UNCHANGED << fs, written >>
                 ELSE /\ fs' = write(write(fs, text_path(abs_path),
                                           TextFile(result)),
                                     vtt_path(abs_path), VttFile(result))
                      /\ written' =
                           Append(written,
                                  [ audio |-> abs_path,
                                    text_path |-> text_path(abs_path),
                                    vtt_path |-> vtt_path(abs_path) ])
                      /\ file_pos' = file_pos + 1
                      /\ pc' = pc
    /\ UNCHANGED << pipelineVarsButPc, fmtVars, media_files >>

\* The loop is over: transcribe_audio_files and main return.
PathsReturn ==
    /\ pc = "paths_transcribe"
    /\ file_pos > Len(media_files)
    /\ pc' = "paths_done"
    /\ UNCHANGED << pipelineVarsButPc, fmtVars, pathVars >>

NextPaths == PathsExtract \/ PathsTranscribe \/ PathsReturn

SpecPaths == InitPaths /\ [][NextPaths]_vars

(* ------------------------ what the claims speak of -------------------- *)

\* The decoder check succeeded: it was invoked and exited with 0.
Decodable(o) == ~o.raised /\ o.returncode = 0

\* The probed duration of a logged clip, 0 when the probe failed.
ProbedDuration(e) == IF e.probed /\ e.probe.ok THEN e.probe.duration ELSE 0

\* A logged clip is included: decodable, at least one second long, and
\* transcribed to a text that is not empty after trimming.
IsIncluded(e) ==
    /\ Decodable(e.decoder)
    /\ e.probed
    /\ ProbedDuration(e) >= 1000
    /\ e.transcribed
    /\ ~e.engine.raised
    /\ strip(e.engine.text) # ""

\* The iteration of the k-th logged clip is over.
IsFinished(k) == k < Len(clip_log) \/ pc \notin {"probe", "transcribe"}

\* Sum of the probed durations of the included clips before position k.
RECURSIVE DurationsBefore(_)
DurationsBefore(k) ==
    IF k <= 1 THEN 0
    ELSE DurationsBefore(k - 1)
           + (IF IsIncluded(clip_log[k - 1]) THEN ProbedDuration(clip_log[k - 1]) ELSE 0)

\* Number of included clips before position k.
RECURSIVE IncludedBefore(_)
IncludedBefore(k) ==
    IF k <= 1 THEN 0
    ELSE IncludedBefore(k - 1) + (IF IsIncluded(clip_log[k - 1]) THEN 1 ELSE 0)

\* Number of segments of the included clips before position k.
RECURSIVE SegmentsBefore(_)
SegmentsBefore(k) ==
    IF k <= 1 THEN 0
    ELSE SegmentsBefore(k - 1)
           + (IF IsIncluded(clip_log[k - 1])
              THEN Len(clip_log[k - 1].engine.segments) ELSE 0)

Merging == pipeline = "onefile" /\ pc \in {"valid", "probe", "transcribe", "cleanup", "aborted"}

SlideLabel(k) == "Slide " \o decimal(k) \o ":"

(* -------------------------------- claims ------------------------------ *)

\* C1: every cue written for a segment of an included clip c starts at
\* offset(c) + segment.start and ends at offset(c) + segment.end, where
\* offset(c) is the sum of the probed durations of the included clips that
\* come before c in the candidate order.
C1_CuesAreRebasedByIncludedDurations ==
    Merging =>
      \A k \in DOMAIN clip_log :
        IsIncluded(clip_log[k]) =>
          LET segs == clip_log[k].engine.segments
              first == SegmentsBefore(k)
              off == DurationsBefore(k)
          IN \A n \in DOMAIN segs :
               /\ first + n \in DOMAIN vtt_file.cues
               /\ vtt_file.cues[first + n].start = off + segs[n].start
               /\ vtt_file.cues[first + n].end = off + segs[n].end
               /\ vtt_file.cues[first + n].text = segs[n].text

\* An included clip, a skipped one, then an included clip with two segments
\* whose cues are written at a non-zero offset.
C1_Witness ==
    /\ Merging
    /\ Len(clip_log) = 3
    /\ IsIncluded(clip_log[1])
    /\ ~IsIncluded(clip_log[2])
    /\ IsIncluded(clip_log[3])
    /\ Len(clip_log[3].engine.segments) = 2
    /\ DurationsBefore(3) = 2000
    /\ Len(vtt_file.cues) >= 3
    /\ vtt_file.cues[Len(vtt_file.cues)].start = 3500

\* C2: a step of transcribe_and_merge that ends the iteration of a clip which
\* is not decodable, or shorter than one second (a failed probe counts as
\* 0), or transcribed to blank text, leaves the running offset, the text
\* artifact and the cue artifact unchanged.
C2_SkippedClipChangesNothing ==
    [][ ( /\ pipeline = "onefile"
          /\ pc \in {"valid", "probe", "transcribe"}
          /\ pc' = "valid"
          /\ index' = index + 1
          /\ ~IsIncluded(clip_log'[Len(clip_log')]) )
        => UNCHANGED << current_time, txt_file, vtt_file >> ]_vars

\* Clips of 2.0 s, 0.5 s and 2.0 s: the second was skipped as too short and
\* the cues of the third start at offset 2.0 s.
C2_Witness ==
    /\ Merging
    /\ Len(clip_log) = 3
    /\ IsFinished(3)
    /\ IsIncluded(clip_log[1]) /\ ProbedDuration(clip_log[1]) = 2000
    /\ Decodable(clip_log[2].decoder) /\ clip_log[2].probed
    /\ ProbedDuration(clip_log[2]) = 500
    /\ IsIncluded(clip_log[3])
    /\ clip_log[3].offset = 2000
    /\ Len(txt_file) = 2
    /\ vtt_file.cues[SegmentsBefore(3) + 1].start = 2000

\* C3 as stated: the k-th block written carries the label k, whatever clips
\* were skipped before it.
C3_BlocksAreNumberedConsecutively ==
    Merging => \A k \in DOMAIN txt_file : txt_file[k].label = SlideLabel(k)

\* C3 as the code has it: the block of an included clip carries the clip's
\* 1-based position among the candidates, and the clip's full text.
C3_BlockLabelIsCandidatePosition ==
    Merging =>
      /\ Len(txt_file) = IncludedBefore(Len(clip_log) + 1)
      /\ \A k \in DOMAIN clip_log :
           IsIncluded(clip_log[k]) =>
             /\ txt_file[IncludedBefore(k) + 1].label = SlideLabel(k)
             /\ txt_file[IncludedBefore(k) + 1].text = clip_log[k].engine.text

\* Candidates a (included), b (skipped as too short), c (included): two
\* blocks, labelled 1 and 3.
C3_Witness ==
    /\ Merging
    /\ Len(clip_log) = 3
    /\ IsIncluded(clip_log[1])
    /\ clip_log[2].probed /\ ProbedDuration(clip_log[2]) = 500
    /\ IsIncluded(clip_log[3])
    /\ Len(txt_file) = 2
    /\ txt_file[1].label = "Slide 1:"
    /\ txt_file[2].label = "Slide 3:"

\* The members of the container just read, as a set.
Members == { zip_ref[i] : i \in DOMAIN zip_ref }

\* C4: the list extract_audio_from_pptx returns is the sorted set of the
\* members under ppt/media/ with an extension among .m4a, .mp3, .wav that
\* were extracted without a corrupted-member error (so N such members with
\* one corrupted give N - 1 candidates).
C4_CandidatesAreTheIntactAudioMembers ==
    pc = "extracted" =>
      audio_files =
        sorted({ e.filename : e \in { m \in Members :
                   /\ startswith(m.filename, "ppt/media/")
                   /\ endswith_any(m.filename, {".m4a", ".mp3", ".wav"})
                   /\ m.corrupt = "ok" } })

\* C5: when the transcription of a clip fails with a missing-resource error
\* after earlier clips of the document were included, main is not aborted:
\* the clip alone is skipped and processing goes on.
C5_MissingResourceSkipsOneClip ==
    ( /\ pipeline = "onefile"
      /\ \E k \in DOMAIN clip_log :
           /\ clip_log[k].engine.raised
           /\ \E j \in 1..(k - 1) : IsIncluded(clip_log[j]) )
      => pc # "aborted"

\* Some clip strictly between positions i and j satisfies P.
SomeBetween(i, j, P(_)) == \E m \in (i + 1)..(j - 1) : P(clip_log[m])

WasSkipped(e) == ~IsIncluded(e)

\* C6 as stated: for included clips i before j, offset(j) >= offset(i) +
\* duration(i), with equality whenever no clip between i and j was skipped.
C6_EqualityWhenNoneSkipped ==
    Merging =>
      \A i, j \in DOMAIN clip_log :
        (i < j /\ IsIncluded(clip_log[i]) /\ IsIncluded(clip_log[j])) =>
          /\ clip_log[j].offset >= clip_log[i].offset + ProbedDuration(clip_log[i])
          /\ ~SomeBetween(i, j, WasSkipped) =>
               clip_log[j].offset = clip_log[i].offset + ProbedDuration(clip_log[i])

\* C6 as the code has it: offset(j) >= offset(i) + duration(i), with equality
\* exactly when no clip between i and j was included.
C6_EqualityWhenNoneIncludedBetween ==
    Merging =>
      \A i, j \in DOMAIN clip_log :
        (i < j /\ IsIncluded(clip_log[i]) /\ IsIncluded(clip_log[j])) =>
          /\ clip_log[j].offset >= clip_log[i].offset + ProbedDuration(clip_log[i])
          /\ ~SomeBetween(i, j, IsIncluded) <=>
               clip_log[j].offset = clip_log[i].offset + ProbedDuration(clip_log[i])

\* Three included clips in a row, of 1.0 s, 2.0 s and any length: the third
\* starts at offset 3.0 s.
C6_Witness ==
    /\ Merging
    /\ Len(clip_log) = 3
    /\ \A k \in 1..3 : IsIncluded(clip_log[k])
    /\ ProbedDuration(clip_log[1]) = 1000
    /\ ProbedDuration(clip_log[2]) = 2000
    /\ clip_log[3].offset = 3000

\* C7: once main has finished handling a document, the document's scratch
\* directory <output_root>/<stem>/temp no longer exists.
C7_ScratchRemovedAfterEachDocument ==
    pc # "aborted" => \A d \in DOMAIN temp_exists : d < doc => ~temp_exists[d]

\* C8: for every clip, in both pipelines, the external calls come in the
\* order decoder check, duration probe, transcription; the probe follows a
\* successful decoder check of the same clip, and the engine is called only
\* after that check succeeded and the probe reported at least one second.
C8_CheckThenProbeThenTranscribe ==
    \A k \in DOMAIN calls :
      /\ calls[k].op = "decoder" =>
           \A n \in 1..(k - 1) : calls[n].clip < calls[k].clip
      /\ calls[k].op = "probe" =>
           /\ k > 1
           /\ calls[k - 1].op = "decoder"
           /\ calls[k - 1].clip = calls[k].clip
           /\ ~calls[k - 1].raised /\ calls[k - 1].value = 0
      /\ calls[k].op = "transcribe" =>
           /\ k > 2
           /\ calls[k - 1].op = "probe"
           /\ calls[k - 1].clip = calls[k].clip
           /\ ~calls[k - 1].raised /\ calls[k - 1].value >= 1000
           /\ calls[k - 2].op = "decoder"
           /\ calls[k - 2].clip = calls[k].clip
           /\ ~calls[k - 2].raised /\ calls[k - 2].value = 0

\* The per-clip pipeline met a clip whose decoder check failed, a clip that
\* was too short, and then transcribed the third clip.
C8_Witness ==
    /\ pipeline = "transcriber"
    /\ Len(calls) = 6
    /\ calls[1].op = "decoder" /\ calls[1].value # 0
    /\ calls[2].op = "decoder" /\ calls[3].op = "probe" /\ calls[3].value = 500
    /\ calls[4].op = "decoder" /\ calls[5].op = "probe"
    /\ calls[6].op = "transcribe" /\ calls[6].clip = 3

\* HH:MM:SS.mmm computed on the whole milliseconds of t.
FieldsOf(t) ==
    fmt(t \div 3600000, 2) \o ":" \o fmt((t \div 60000) % 60, 2) \o ":"
      \o fmt((t \div 1000) % 60, 2) \o "." \o fmt(t % 1000, 3)

\* C9: each format_time returns HH:MM:SS.mmm with mmm = t mod 1000,
\* SS = (t div 1000) mod 60, MM = (t div 60000) mod 60, HH = t div 3600000,
\* and the two variants agree.
C9_FormatTimeGivesTheFieldsOfT ==
    /\ formatted.successive # "" => formatted.successive = FieldsOf(seconds)
    /\ formatted.direct # "" => formatted.direct = FieldsOf(seconds)
    /\ (formatted.successive # "" /\ formatted.direct # "")
         => formatted.successive = formatted.direct

\* C10 as stated: the cue start times never decrease in the order written,
\* whatever the segment times are relative to the probed durations.
C10_CueStartsNeverDecrease ==
    Merging =>
      \A a, b \in DOMAIN vtt_file.cues :
        a < b => vtt_file.cues[a].start <= vtt_file.cues[b].start

\* No segment of a logged included clip starts after the clip's probed
\* duration.
SegmentsStartWithinDuration ==
    \A k \in DOMAIN clip_log :
      IsIncluded(clip_log[k]) =>
        \A n \in DOMAIN clip_log[k].engine.segments :
          clip_log[k].engine.segments[n].start <= ProbedDuration(clip_log[k])

\* C10 as the code has it: the cue start times never decrease provided that
\* every segment of an included clip starts no later than the clip's probed
\* duration.
C10_CueStartsNeverDecreaseWithinDurations ==
    (Merging /\ SegmentsStartWithinDuration) =>
      \A a, b \in DOMAIN vtt_file.cues :
        a < b => vtt_file.cues[a].start <= vtt_file.cues[b].start

\* A 2.0 s clip with segments at 0 and 1.5 s, then a second included clip
\* whose first cue starts at 2.0 s.
C10_Witness ==
    /\ Merging
    /\ SegmentsStartWithinDuration
    /\ Len(clip_log) = 2
    /\ IsIncluded(clip_log[1]) /\ IsIncluded(clip_log[2])
    /\ Len(clip_log[1].engine.segments) = 2
    /\ Len(vtt_file.cues) >= 3
    /\ vtt_file.cues[2].start = 1500
    /\ vtt_file.cues[3].start = 2000

\* C11: for every audio file extract_audio_from_pptx of transcribe.py
\* returned and transcribe_audio_files transcribed, the text output and
\* the cue output went to two distinct paths, neither of them the path of
\* the audio file: every returned audio file still holds its audio, and
\* the text output still holds the text.
C11_OutputsNeverOverwrite ==
    /\ \A k \in 1..Len(written) :
         /\ written[k].text_path # written[k].vtt_path
         /\ written[k].text_path # written[k].audio
         /\ written[k].vtt_path # written[k].audio
         /\ fs[written[k].text_path].kind = "text"
    /\ \A k \in 1..Len(media_files) :
         fs[abspath(media_files[k])].kind = "audio"

====
